---- MODULE Spec2Model ----
(***************************************************************************)
(* Model of src/BrowserBookmarks.py: the ulauncher extension that finds    *)
(* the Bookmarks files of Brave Beta (and of user supplied directories)    *)
(* and searches them for the query typed after the keyword.                *)
(*                                                                         *)
(* Python str values are sequences of one-character strings, so that       *)
(* split, lower, endswith and the substring test are computed, not         *)
(* assumed.  None is the one-element sequence NoneValue, which is no       *)
(* string of characters.                                                   *)
(***************************************************************************)
EXTENDS Naturals, Sequences, FiniteSets

VARIABLES
    fs,               \* the filesystem: what each path of FsPaths holds
    preferences,      \* extension.preferences (a dict)
    bookmarks_paths,  \* extension.bookmarks_paths (a list of (path, browser))
    matches_len,      \* extension.matches_len
    event,            \* the host event whose handler ran last
    outcome,          \* what that handler returned or raised
    text,             \* input of the matcher specification: a leaf's name
    query,            \* input of the matcher specification: the query
    matched           \* output of the matcher specification

vars == <<fs, preferences, bookmarks_paths, matches_len, event, outcome,
          text, query, matched>>

NoneValue == <<"<None>">>

-----------------------------------------------------------------------------
(* Python's str operations *)

UpperCase == <<"A","B","C","D","E","F","G","H","I","J","K","L","M",
               "N","O","P","Q","R","S","T","U","V","W","X","Y","Z">>

LowerCase == <<"a","b","c","d","e","f","g","h","i","j","k","l","m",
               "n","o","p","q","r","s","t","u","v","w","x","y","z">>

\* the lower-case letter of each upper-case letter
ToLower == [c \in {UpperCase[i] : i \in 1..Len(UpperCase)} |->
               LowerCase[CHOOSE i \in 1..Len(UpperCase) : UpperCase[i] = c]]

\* str.lower() of one character
lower_char(c) == IF c \in DOMAIN ToLower THEN ToLower[c] ELSE c

\* str.lower()
lower(s) == [i \in 1..Len(s) |-> lower_char(s[i])]

\* sub in s
str_in(sub, s) ==
    \E k \in 0..Len(s) :
        /\ k + Len(sub) <= Len(s)
        /\ SubSeq(s, k + 1, k + Len(sub)) = sub

\* s.endswith(suffix)
endswith(s, suffix) ==
    /\ Len(suffix) <= Len(s)
    /\ SubSeq(s, Len(s) - Len(suffix) + 1, Len(s)) = suffix

RECURSIVE split_scan(_, _, _, _)
\* the pieces of s from position start on, the scan being at position i
split_scan(s, sep, start, i) ==
    IF i > Len(s) THEN <<SubSeq(s, start, Len(s))>>
    ELSE IF s[i] = sep
    THEN <<SubSeq(s, start, i - 1)>> \o split_scan(s, sep, i + 1, i + 1)
    ELSE split_scan(s, sep, start, i + 1)

\* s.split(sep) for a one-character sep
split(s, sep) == split_scan(s, sep, 1, 1)

-----------------------------------------------------------------------------
(* BrowserBookmarks.contains_all_substrings *)

contains_all_substrings_any(text_, substrings) ==
    \E i \in 1..Len(substrings) : str_in(lower(substrings[i]), lower(text_))

RECURSIVE contains_all_substrings(_, _)
contains_all_substrings(text_, substrings) ==
    IF substrings = <<>> THEN TRUE
    ELSE IF ~str_in(lower(Head(substrings)), lower(text_)) THEN FALSE
    ELSE contains_all_substrings(text_, Tail(substrings))

-----------------------------------------------------------------------------
(* Module-level tables of BrowserBookmarks.py *)

BraveBeta == <<"B","r","a","v","e","S","o","f","t","w","a","r","e","/",
               "B","r","a","v","e","-","B","r","o","w","s","e","r","-",
               "B","e","t","a">>

support_browsers == <<BraveBeta>>

\* browser_imgs.get(browser): the image of a supported browser, else None
browser_imgs_get(browser) ==
    IF browser = BraveBeta THEN "images/brave-beta.png" ELSE "None"

max_matches_len == 10

custom_path == <<"c","u","s","t","o","m","_","p","a","t","h">>

BookmarksName == <<"B","o","o","k","m","a","r","k","s">>

-----------------------------------------------------------------------------
(* The filesystem the extension reads.  FsPaths are the entries that may   *)
(* exist, in the order find enumerates them; fs[i] says what FsPaths[i]    *)
(* holds: "absent", "dir" (a directory), or the text of a regular file.    *)
(* The directories above an entry are not listed: none of their paths      *)
(* contains Bookmarks, so grep drops them.                                 *)

HomeDir == <<"/","h">>

BravePath == <<"/","h","/",".","c","o","n","f","i","g","/",
               "B","r","a","v","e","S","o","f","t","w","a","r","e","/",
               "B","r","a","v","e","-","B","r","o","w","s","e","r","-",
               "B","e","t","a","/","D","e","f","a","u","l","t","/",
               "B","o","o","k","m","a","r","k","s">>

XBookmarks == <<"/","x","/","B","o","o","k","m","a","r","k","s">>

XOldBookmarks == <<"/","x","/","O","l","d","B","o","o","k","m","a","r","k","s">>

XBookmarksBak == <<"/","x","/","B","o","o","k","m","a","r","k","s",".","b","a","k">>

YBookmarks == <<"/","y","/","B","o","o","k","m","a","r","k","s">>

FsPaths == <<BravePath, XBookmarks, XOldBookmarks, XBookmarksBak, YBookmarks>>

\* what each entry may hold
FsChoices ==
    <<{"absent", "big"},
      {"absent", "dir", "small", "garbage", "nosynced", "nourl"},
      {"small"},
      {"small"},
      {"absent", "big"}>>

FsStates == {f \in [1..Len(FsPaths) -> {"absent", "dir", "small", "big",
                                        "garbage", "nosynced", "nourl"}] :
                 \A i \in 1..Len(FsPaths) : f[i] \in FsChoices[i]}

-----------------------------------------------------------------------------
(* Bookmark files: the documents json.load yields *)

Leaf(name, url) == [type |-> "url", name |-> name, url |-> url]

LeafNoUrl(name) == [type |-> "url", name |-> name]

Folder(name, children) == [type |-> "folder", name |-> name, children |-> children]

GitHub == Leaf(<<"G","i","t","H","u","b">>, "https://github.com")

MyPersonalBlog ==
    Leaf(<<"M","y"," ","P","e","r","s","o","n","a","l"," ","B","l","o","g">>,
         "https://me.example")

WorkBlog == Leaf(<<"W","o","r","k"," ","B","l","o","g">>, "https://work.example")

Gitlab == Leaf(<<"g","i","t","l","a","b">>, "https://gitlab.com")

BlogRoll == Leaf(<<"B","l","o","g"," ","r","o","l","l">>, "https://roll.example")

GitHubGist == Leaf(<<"G","i","t","H","u","b"," ","G","i","s","t">>,
                   "https://gist.github.com")

News == Leaf(<<"N","e","w","s">>, "https://news.example")

MyBlogLower == Leaf(<<"m","y"," ","b","l","o","g">>, "https://blog.example")

GitBook == Leaf(<<"G","i","t"," ","b","o","o","k">>, "https://git-scm.com/book")

BarName == <<"b","a","r">>

BlogFolderName == <<"b","l","o","g","s">>

\* bar = [A, B], synced = [], other = [C]
SmallDoc ==
    [roots |-> [bookmark_bar |-> Folder(BarName, <<GitHub, MyPersonalBlog>>),
                synced       |-> Folder(BarName, <<>>),
                other        |-> Folder(BarName, <<WorkBlog>>)]]

\* six leaves, nested folders, a folder whose own name contains "blog"
BigDoc ==
    [roots |-> [bookmark_bar |->
                    Folder(BarName,
                           <<Gitlab,
                             Folder(BlogFolderName, <<BlogRoll, GitHubGist>>),
                             News>>),
                synced       |-> Folder(BarName, <<MyBlogLower>>),
                other        |-> Folder(BarName,
                                        <<Folder(BlogFolderName, <<>>), GitBook>>)]]

\* a file without the synced root section
NoSyncedDoc ==
    [roots |-> [bookmark_bar |-> Folder(BarName, <<GitHub>>),
                other        |-> Folder(BarName, <<WorkBlog>>)]]

\* a file with a leaf that has no url
NoUrlDoc ==
    [roots |-> [bookmark_bar |-> Folder(BarName, <<LeafNoUrl(<<"G","i","t","H","u","b">>)>>),
                synced       |-> Folder(BarName, <<>>),
                other        |-> Folder(BarName, <<WorkBlog>>)]]

\* open(path): the text of the file, or the exception open raises
open(path, fs_) ==
    IF \E i \in 1..Len(FsPaths) : FsPaths[i] = path /\ fs_[i] # "absent"
    THEN LET i == CHOOSE i \in 1..Len(FsPaths) : FsPaths[i] = path
         IN  IF fs_[i] = "dir"
             THEN [exc |-> "IsADirectoryError", file |-> "absent"]
             ELSE [exc |-> "", file |-> fs_[i]]
    ELSE [exc |-> "FileNotFoundError", file |-> "absent"]

\* json.load(data_file): the document, or the exception json.load raises
json_load(file) ==
    CASE file = "small"    -> [exc |-> "", data |-> SmallDoc]
      [] file = "big"      -> [exc |-> "", data |-> BigDoc]
      [] file = "nosynced" -> [exc |-> "", data |-> NoSyncedDoc]
      [] file = "nourl"    -> [exc |-> "", data |-> NoUrlDoc]
      [] OTHER             -> [exc |-> "JSONDecodeError", data |-> <<>>]

-----------------------------------------------------------------------------
(* Path discovery: find_bookmarks_paths and collect_bookmarks_paths *)

HomeVar == <<"$","H","O","M","E">>

Newline == "\n"

\* s.startswith(prefix)
startswith(s, prefix) ==
    /\ Len(prefix) <= Len(s)
    /\ SubSeq(s, 1, Len(prefix)) = prefix

\* the shell's expansion of $HOME at the head of the word given to find
shell_expand(command) ==
    IF startswith(command, HomeVar)
    THEN HomeDir \o SubSeq(command, Len(HomeVar) + 1, Len(command))
    ELSE command

\* the lines `find d` prints: d itself and every entry below it
find(d, fs_) ==
    SelectSeq(FsPaths,
              LAMBDA path :
                  /\ \E i \in 1..Len(FsPaths) : FsPaths[i] = path /\ fs_[i] # "absent"
                  /\ \/ path = d
                     \/ startswith(path, d \o <<"/">>))

\* `grep Bookmarks`: the lines that contain Bookmarks
grep_Bookmarks(lines) ==
    SelectSeq(lines, LAMBDA line : str_in(BookmarksName, line))

RECURSIVE unlines(_)
\* the text of a sequence of lines, each ended by a newline
unlines(lines) ==
    IF lines = <<>> THEN <<>>
    ELSE Head(lines) \o <<Newline>> \o unlines(Tail(lines))

\* os.popen("find %s | grep Bookmarks" % command).read()
popen_read(command, fs_) ==
    unlines(grep_Bookmarks(find(shell_expand(command), fs_)))

RECURSIVE grep_results_of(_, _)
\* the loop of lines 131-134
grep_results_of(dirs, fs_) ==
    IF dirs = <<>> THEN <<>>
    ELSE split(popen_read(Head(dirs), fs_), Newline) \o grep_results_of(Tail(dirs), fs_)

\* the test of line 142
keeps_path(one_path) == endswith(one_path, BookmarksName)

collect_bookmarks_paths(dirs, browser, fs_) ==
    LET grep_results == grep_results_of(dirs, fs_)
        kept == SelectSeq(grep_results, keeps_path)
    IN  IF Len(grep_results) = 0 THEN <<>>
        ELSE [i \in 1..Len(kept) |-> <<kept[i], browser>>]

ConfigDir(browser) ==
    HomeVar \o <<"/",".","c","o","n","f","i","g","/">> \o browser

SnapDir(browser) ==
    HomeVar \o <<"/","s","n","a","p","/">> \o browser
        \o <<"/","c","u","r","r","e","n","t","/",".","c","o","n","f","i","g","/">>
        \o browser

RECURSIVE browsers_paths(_, _)
\* the loop of lines 91-101
browsers_paths(browsers, fs_) ==
    IF browsers = <<>> THEN <<>>
    ELSE collect_bookmarks_paths(<<ConfigDir(Head(browsers)), SnapDir(Head(browsers))>>,
                                 Head(browsers), fs_)
         \o browsers_paths(Tail(browsers), fs_)

\* the truth value of a str-or-None preference
truthy(v) == v # NoneValue /\ v # <<>>

find_bookmarks_paths(preferences_, fs_) ==
    LET additional_browser_paths == preferences_["additional_browser_paths"]
        found_bookmarks == browsers_paths(support_browsers, fs_)
    IN  IF truthy(additional_browser_paths)
        THEN found_bookmarks
             \o collect_bookmarks_paths(split(additional_browser_paths, ":"),
                                        custom_path, fs_)
        ELSE found_bookmarks

-----------------------------------------------------------------------------
(* Search: find_rec and get_items.  A search state is                      *)
(* [matches, matches_len, exc]: the matches list, self.matches_len and the  *)
(* exception in flight ("" when there is none).                            *)

raise(st, exc) == [st EXCEPT !.exc = exc]

\* line 158: the test that ends the search
cap_reached_off_by_one(matches_len_) == matches_len_ > max_matches_len

cap_reached(matches_len_) == matches_len_ >= max_matches_len

RECURSIVE find_rec(_, _, _)
RECURSIVE find_rec_children(_, _, _)

\* the loop of lines 162-163; an exception ends it
find_rec_children(children, query_, st) ==
    IF children = <<>> \/ st.exc # "" THEN st
    ELSE find_rec_children(Tail(children), query_, find_rec(Head(children), query_, st))

find_rec(bookmark_entry, query_, st) ==
    IF cap_reached(st.matches_len) THEN st
    ELSE IF "type" \notin DOMAIN bookmark_entry THEN raise(st, "KeyError")
    ELSE IF bookmark_entry.type = "folder"
    THEN IF "children" \notin DOMAIN bookmark_entry THEN raise(st, "KeyError")
         ELSE find_rec_children(bookmark_entry.children, query_, st)
    ELSE IF "name" \notin DOMAIN bookmark_entry THEN raise(st, "KeyError")
    ELSE IF ~contains_all_substrings(bookmark_entry.name, split(query_, " "))
    THEN st
    ELSE [st EXCEPT !.matches = Append(@, bookmark_entry),
                    !.matches_len = @ + 1]

\* self.find_rec(data["roots"][root], query, matches), lines 197-199
search_root(data, root, query_, st) ==
    IF st.exc # "" THEN st
    ELSE IF "roots" \notin DOMAIN data THEN raise(st, "KeyError")
    ELSE IF root \notin DOMAIN data.roots THEN raise(st, "KeyError")
    ELSE find_rec(data.roots[root], query_, st)

\* the three calls of lines 197-199, in their order
RootSections_other_first == <<"other", "bookmark_bar", "synced">>

RootSections == <<"bookmark_bar", "synced", "other">>

RECURSIVE search_roots(_, _, _, _)
search_roots(data, roots, query_, st) ==
    IF roots = <<>> THEN st
    ELSE search_roots(data, Tail(roots), query_,
                      search_root(data, Head(roots), query_, st))

\* ExtensionResultItem(...), lines 204-209
ExtensionResultItem(bookmark, browser) ==
    [icon        |-> browser_imgs_get(browser),
     name        |-> bookmark.name,
     description |-> bookmark.url,
     on_enter    |-> bookmark.url]

RECURSIVE append_items(_, _, _)
\* the loop of lines 201-210 over matches; acc is [items, exc]
append_items(matches, browser, acc) ==
    IF matches = <<>> \/ acc.exc # "" THEN acc
    ELSE IF "url" \notin DOMAIN Head(matches)
    THEN [acc EXCEPT !.exc = "KeyError"]
    ELSE append_items(Tail(matches), browser,
                      [acc EXCEPT !.items =
                           Append(@, ExtensionResultItem(Head(matches), browser))])

\* one turn of the loop of line 192; g is [items, matches_len, exc]
search_source(source, query_, g, fs_) ==
    LET opened  == open(source[1], fs_)
        loaded  == json_load(opened.file)
        st0     == [matches |-> <<>>, matches_len |-> g.matches_len, exc |-> ""]
        st      == search_roots(loaded.data, RootSections, query_, st0)
        acc     == append_items(st.matches, source[2], [items |-> g.items, exc |-> ""])
    IN  IF opened.exc # "" THEN [g EXCEPT !.exc = opened.exc]
        ELSE IF loaded.exc # "" THEN [g EXCEPT !.exc = loaded.exc]
        ELSE IF st.exc # ""
        THEN [g EXCEPT !.matches_len = st.matches_len, !.exc = st.exc]
        ELSE [items |-> acc.items, matches_len |-> st.matches_len, exc |-> acc.exc]

RECURSIVE search_sources(_, _, _, _)
search_sources(sources, query_, g, fs_) ==
    IF sources = <<>> \/ g.exc # "" THEN g
    ELSE search_sources(Tail(sources), query_,
                        search_source(Head(sources), query_, g, fs_), fs_)

\* line 185: self.matches_len = 0
keep_matches_len(old) == old

reset_matches_len(old) == 0

\* lines 187-188: None is searched as the empty string
keep_query(query_) == query_

normalize_query(query_) == IF query_ = NoneValue THEN <<>> ELSE query_

\* get_items: [items, matches_len, exc]; the list is returned when exc = ""
get_items(query_, bookmarks_paths_, matches_len_, fs_) ==
    search_sources(bookmarks_paths_, normalize_query(query_),
                   [items |-> <<>>,
                    matches_len |-> reset_matches_len(matches_len_),
                    exc |-> ""],
                   fs_)

-----------------------------------------------------------------------------
(* The inputs the host and the user supply *)

KeywordBm == <<"b","m">>

KeywordB == <<"b">>

Keywords == {KeywordBm, KeywordB}

\* values of the additional_browser_paths preference: empty, one directory,
\* two directories, the same directory twice, a directory that does not exist
PathPrefs ==
    {<<>>,
     <<"/","x">>,
     <<"/","x",":","/","y">>,
     <<"/","x",":","/","x">>,
     <<"/","z">>}

QueryBlog == <<"b","l","o","g">>

QueryGitB == <<"g","i","t"," ","b">>

\* event.get_argument(): None, the empty string, or text
Queries == {NoneValue, <<>>, QueryBlog, QueryGitB}

NoEvent == [type |-> "none"]

NoOutcome == [kind |-> "none", items |-> <<>>, exc |-> ""]

-----------------------------------------------------------------------------
(* The event listeners *)

\* dict assignment d[k] = v
dict_set(d, k, v) == [x \in DOMAIN d \cup {k} |-> IF x = k THEN v ELSE d[x]]

\* line 48: the key whose change is ignored
no_ignored_id(id) == FALSE

ignored_id(id) == id = "keyword"

\* line 55 as an incremental update: the new paths are added to the old list
PreferencesEventListener_on_event_extend(event_, preferences_, bookmarks_paths_, fs_) ==
    LET new_preferences ==
            IF event_.type = "PreferencesUpdateEvent"
            THEN dict_set(preferences_, event_.id, event_.new_value)
            ELSE event_.preferences
    IN  IF event_.type = "PreferencesUpdateEvent" /\ ignored_id(event_.id)
        THEN [preferences |-> preferences_, bookmarks_paths |-> bookmarks_paths_]
        ELSE [preferences |-> new_preferences,
              bookmarks_paths |->
                  bookmarks_paths_ \o find_bookmarks_paths(new_preferences, fs_)]

\* PreferencesEventListener.on_event: the extension's
\* [preferences, bookmarks_paths] after the event
PreferencesEventListener_on_event(event_, preferences_, bookmarks_paths_, fs_) ==
    LET new_preferences ==
            IF event_.type = "PreferencesUpdateEvent"
            THEN dict_set(preferences_, event_.id, event_.new_value)
            ELSE event_.preferences
    IN  IF event_.type = "PreferencesUpdateEvent" /\ ignored_id(event_.id)
        THEN [preferences |-> preferences_, bookmarks_paths |-> bookmarks_paths_]
        ELSE [preferences |-> new_preferences,
              bookmarks_paths |-> find_bookmarks_paths(new_preferences, fs_)]

\* KeywordQueryEventListener.on_event: what the handler returns or raises
KeywordQueryEventListener_on_event(event_, bookmarks_paths_, matches_len_, fs_) ==
    get_items(event_.argument, bookmarks_paths_, matches_len_, fs_)

\* what the host sees of a handler: the list it returned (line 63), or the
\* exception that escaped it
handler_outcome(got) ==
    IF got.exc = ""
    THEN [kind |-> "return", items |-> got.items, exc |-> ""]
    ELSE [kind |-> "raise", items |-> <<>>, exc |-> got.exc]

\* ulauncher sends PreferencesEvent once, when the extension starts, before
\* any PreferencesUpdateEvent or KeywordQueryEvent
PreferencesLoaded == "additional_browser_paths" \in DOMAIN preferences

-----------------------------------------------------------------------------
(* The extension in its host *)

Init ==
    /\ fs \in FsStates
    /\ preferences = <<>>
    /\ bookmarks_paths = <<>>
    /\ matches_len = 0
    /\ event = NoEvent
    /\ outcome = NoOutcome
    /\ text = <<>>
    /\ query = <<>>
    /\ matched = "none"

HandlePreferences(event_) ==
    LET after == PreferencesEventListener_on_event(event_, preferences,
                                                   bookmarks_paths, fs)
    IN  /\ event' = [type |-> event_.type,
                      id |-> IF "id" \in DOMAIN event_ THEN event_.id ELSE ""]
        /\ preferences' = after.preferences
        /\ bookmarks_paths' = after.bookmarks_paths
        /\ outcome' = [kind |-> "return", items |-> <<>>, exc |-> ""]
        /\ UNCHANGED <<fs, matches_len, text, query, matched>>

PreferencesEvent ==
    /\ ~PreferencesLoaded
    /\ \E paths \in PathPrefs :
           HandlePreferences([type |-> "PreferencesEvent",
                              preferences |-> [keyword |-> KeywordBm,
                                               additional_browser_paths |-> paths]])

PreferencesUpdateEvent ==
    /\ PreferencesLoaded
    /\ \/ \E keyword \in Keywords :
              HandlePreferences([type |-> "PreferencesUpdateEvent",
                                 id |-> "keyword", new_value |-> keyword])
       \/ \E paths \in PathPrefs :
              HandlePreferences([type |-> "PreferencesUpdateEvent",
                                 id |-> "additional_browser_paths",
                                 new_value |-> paths])

KeywordQueryEvent ==
    /\ PreferencesLoaded
    /\ \E argument \in Queries :
           LET event_ == [type |-> "KeywordQueryEvent", argument |-> argument]
               got == KeywordQueryEventListener_on_event(event_, bookmarks_paths,
                                                         matches_len, fs)
           IN  /\ event' = event_
               /\ matches_len' = got.matches_len
               /\ outcome' = handler_outcome(got)
               /\ UNCHANGED <<fs, preferences, bookmarks_paths, text, query, matched>>

\* the user or a browser creates, rewrites or removes an entry
FsWrite ==
    \E i \in 1..Len(FsPaths) : \E c \in FsChoices[i] :
        /\ c # fs[i]
        /\ fs' = [fs EXCEPT ![i] = c]
        /\ event' = NoEvent
        /\ outcome' = NoOutcome
        /\ UNCHANGED <<preferences, bookmarks_paths, matches_len, text, query, matched>>

Next == PreferencesEvent \/ PreferencesUpdateEvent \/ KeywordQueryEvent \/ FsWrite

Spec == Init /\ [][Next]_vars

-----------------------------------------------------------------------------
(* The matcher on its own: a leaf named text is searched for query by a    *)
(* fresh find_rec.  Its inputs are every string over Alphabet up to the    *)
(* bounds, and the names and queries of the documentation's examples.      *)

Alphabet == {"a", "A", "b", " "}

MaxTextLen == 4

MaxQueryLen == 3

StringsUpTo(n) == UNION {[1..k -> Alphabet] : k \in 0..n}

TextGitHub == <<"G","i","t","H","u","b">>

TextMyPersonalBlog ==
    <<"M","y"," ","P","e","r","s","o","n","a","l"," ","B","l","o","g">>

QueryBlogPersonal == <<"b","l","o","g"," ","p","e","r","s","o","n","a","l">>

QueryBlogWork == <<"b","l","o","g"," ","w","o","r","k">>

QueryGithubLower == <<"g","i","t","h","u","b">>

QueryGithubUpper == <<"G","I","T","H","U","B">>

InitMatch ==
    /\ fs = [i \in 1..Len(FsPaths) |-> "absent"]
    /\ preferences = <<>>
    /\ bookmarks_paths = <<>>
    /\ matches_len = 0
    /\ event = NoEvent
    /\ outcome = NoOutcome
    /\ text \in StringsUpTo(MaxTextLen) \cup {TextGitHub, TextMyPersonalBlog}
    /\ query \in StringsUpTo(MaxQueryLen)
                   \cup {QueryBlogPersonal, QueryBlogWork,
                         QueryGithubLower, QueryGithubUpper}
    /\ matched = "none"

MatchLeaf ==
    /\ matched = "none"
    /\ LET st == find_rec(Leaf(text, "https://leaf.example"), query,
                          [matches |-> <<>>, matches_len |-> 0, exc |-> ""])
       IN  matched' = IF st.matches # <<>> THEN "yes" ELSE "no"
    /\ UNCHANGED <<fs, preferences, bookmarks_paths, matches_len, event, outcome,
                   text, query>>

NextMatch == MatchLeaf

SpecMatch == InitMatch /\ [][NextMatch]_vars

-----------------------------------------------------------------------------
(* What the documentation says, stated without the code's operators *)

Min(a, b) == IF a <= b THEN a ELSE b

\* the places (i, j) of the sub-queries of q: the stretches of q between
\* spaces (and the ends of q), empty ones included
SubQueryPlaces(q) ==
    {p \in (1..(Len(q) + 1)) \X (0..Len(q)) :
        /\ p[2] >= p[1] - 1
        /\ p[1] = 1 \/ q[p[1] - 1] = " "
        /\ p[2] = Len(q) \/ q[p[2] + 1] = " "
        /\ \A k \in p[1]..p[2] : q[k] # " "}

\* sub, lower-cased, occurs in t, lower-cased, at some offset
OccursIgnoringCase(q, p, t) ==
    \E off \in 0..Len(t) :
        \A k \in p[1]..p[2] :
            /\ off + (k - p[1]) + 1 <= Len(t)
            /\ lower_char(t[off + (k - p[1]) + 1]) = lower_char(q[k])

\* a leaf named t is a match for the query q
IsMatch(t, q) == \A p \in SubQueryPlaces(q) : OccursIgnoringCase(q, p, t)

RECURSIVE LeavesOf(_)
RECURSIVE LeavesOfAll(_)
\* the leaves below a node, depth first, children in stored order
LeavesOf(node) ==
    IF node.type = "folder" THEN LeavesOfAll(node.children) ELSE <<node>>

LeavesOfAll(nodes) ==
    IF nodes = <<>> THEN <<>> ELSE LeavesOf(Head(nodes)) \o LeavesOfAll(Tail(nodes))

\* the document in the file at path
DocAt(path) == json_load(open(path, fs).file).data

\* the leaves of one source, root sections in the order bar, synced, other,
\* each with the browser of its source
LeavesOfSource(source) ==
    LET roots == DocAt(source[1]).roots
        leaves == LeavesOf(roots.bookmark_bar) \o LeavesOf(roots.synced)
                      \o LeavesOf(roots.other)
    IN  [i \in 1..Len(leaves) |-> [leaf |-> leaves[i], browser |-> source[2]]]

RECURSIVE LeavesOfSources(_)
LeavesOfSources(sources) ==
    IF sources = <<>> THEN <<>>
    ELSE LeavesOfSource(Head(sources)) \o LeavesOfSources(Tail(sources))

\* the query searched for: an absent argument is the empty query
SearchedQuery(argument) == IF argument = NoneValue THEN <<>> ELSE argument

ItemOf(l) ==
    [icon        |-> IF l.browser = BraveBeta THEN "images/brave-beta.png" ELSE "None",
     name        |-> l.leaf.name,
     description |-> l.leaf.url,
     on_enter    |-> l.leaf.url]

\* the first max_matches_len of the leaves of sources that match q, as items
FirstMatches(sources, q) ==
    LET all == SelectSeq(LeavesOfSources(sources), LAMBDA l : IsMatch(l.leaf.name, q))
        kept == SubSeq(all, 1, Min(max_matches_len, Len(all)))
    IN  [i \in 1..Len(kept) |-> ItemOf(kept[i])]

NumberOfMatches(sources, q) ==
    Len(SelectSeq(LeavesOfSources(sources), LAMBDA l : IsMatch(l.leaf.name, q)))

Queried == event.type = "KeywordQueryEvent"

Returned == Queried /\ outcome.kind = "return"

-----------------------------------------------------------------------------
(* C4 *)

\* C4: a leaf is a match for a query exactly when every sub-query got by
\* splitting the query on the space character is, both sides lower-cased, a
\* substring of the leaf's name; "My Personal Blog" matches "blog personal"
\* and not "blog work", "GitHub" matches "github" and "GITHUB".
C4_MatchIffAllSubQueries ==
    matched # "none" =>
        /\ (matched = "yes") <=> IsMatch(text, query)
        /\ text = TextMyPersonalBlog /\ query = QueryBlogPersonal => matched = "yes"
        /\ text = TextMyPersonalBlog /\ query = QueryBlogWork => matched = "no"
        /\ text = TextGitHub /\ query \in {QueryGithubLower, QueryGithubUpper}
               => matched = "yes"

\* the sub-queries occur in the name in the other order
C4_Witness ==
    /\ matched = "yes"
    /\ text = TextMyPersonalBlog
    /\ query = QueryBlogPersonal

-----------------------------------------------------------------------------
(* C1 *)

\* C1: the list get_items returns never has more than max_matches_len (10)
\* items, counted over all sources and all three root sections, however
\* many leaves match; the running count never passes the cap either.
C1_AtMostMaxMatches ==
    /\ matches_len <= max_matches_len
    /\ Returned => Len(outcome.items) <= max_matches_len

\* more than ten leaves match, spread over several sources, and ten are returned
C1_Witness ==
    /\ Returned
    /\ Len(bookmarks_paths) >= 2
    /\ NumberOfMatches(bookmarks_paths, SearchedQuery(event.argument)) > max_matches_len
    /\ Len(outcome.items) = max_matches_len

-----------------------------------------------------------------------------
(* C2, C3 *)

FileAt(source) == open(source[1], fs).file

\* missing, unreadable or not valid structured data
IsBadSource(source) ==
    \/ open(source[1], fs).exc # ""
    \/ FileAt(source) = "garbage"

IsIntactSource(source) == FileAt(source) \in {"small", "big"}

\* C2: when one source of several is missing, unreadable or not valid
\* structured data, get_items still returns the matching leaves of every
\* other source, those before and those after the bad one, up to the cap.
C2_BadSourceIsIsolated ==
    ( /\ Queried
      /\ Len(bookmarks_paths) >= 2
      /\ \E i \in 1..Len(bookmarks_paths) : IsBadSource(bookmarks_paths[i])
      /\ \A i \in 1..Len(bookmarks_paths) :
             IsBadSource(bookmarks_paths[i]) \/ IsIntactSource(bookmarks_paths[i]) )
    => /\ outcome.kind = "return"
       /\ outcome.items = FirstMatches(SelectSeq(bookmarks_paths, IsIntactSource),
                                       SearchedQuery(event.argument))

\* C3: whatever the host events and the files were, the keyword-query
\* handler returns a list (empty or partial) and lets no error escape.
C3_NoErrorEscapes == Queried => outcome.kind = "return"

-----------------------------------------------------------------------------
(* C5 *)

NamesOf(items) == [i \in 1..Len(items) |-> items[i].name]

\* the sources with every file kept at its first listing only
RECURSIVE DistinctFiles(_)
DistinctFiles(sources) ==
    IF sources = <<>> THEN <<>>
    ELSE LET front == DistinctFiles(SubSeq(sources, 1, Len(sources) - 1))
             last  == sources[Len(sources)]
         IN  IF \E i \in 1..Len(front) : front[i][1] = last[1]
             THEN front ELSE Append(front, last)

\* C5 as amended: the items returned are the first min(10, M) matching
\* leaves in traversal order (sources in source-list order, each listing of
\* a file traversed in its turn; root sections bar, synced, other; children
\* depth first in stored order), no folder among them, none skipped; for
\* bar = [A, B], synced = [], other = [C], all matching, the result is
\* [A, B, C].
C5_FirstMatchesInTraversalOrder ==
    Returned =>
        /\ outcome.items = FirstMatches(bookmarks_paths, SearchedQuery(event.argument))
        /\ ( /\ Len(bookmarks_paths) = 1
             /\ FileAt(bookmarks_paths[1]) = "small"
             /\ event.argument = <<>> )
           => NamesOf(outcome.items) = <<GitHub.name, MyPersonalBlog.name, WorkBlog.name>>

\* a query that some leaves match and others do not, over several sources,
\* one of them with nested folders
C5_Witness ==
    /\ Returned
    /\ event.argument = QueryBlog
    /\ Len(bookmarks_paths) >= 3
    /\ \E i \in 1..Len(bookmarks_paths) : FileAt(bookmarks_paths[i]) = "big"
    /\ \E i \in 1..Len(bookmarks_paths) : FileAt(bookmarks_paths[i]) = "small"
    /\ Len(outcome.items) \in 3..(max_matches_len - 1)
    /\ Len(outcome.items) < Len(LeavesOfSources(bookmarks_paths))

\* C5 as written: the same, and no leaf appears twice, so that a file is
\* traversed once however often the source list names it.
C5_Original_NoLeafTwice ==
    Returned =>
        outcome.items = FirstMatches(DistinctFiles(bookmarks_paths),
                                     SearchedQuery(event.argument))

-----------------------------------------------------------------------------
(* C6 *)

AllLeavesFirst(sources) ==
    LET all == LeavesOfSources(sources)
        kept == SubSeq(all, 1, Min(max_matches_len, Len(all)))
    IN  [i \in 1..Len(kept) |-> ItemOf(kept[i])]

\* C6: for the empty query, and for an absent argument (None), every leaf
\* is a match: the result is the first min(10, number of leaves) leaves in
\* traversal order.
C6_EmptyQueryMatchesEveryLeaf ==
    (Returned /\ event.argument \in {NoneValue, <<>>}) =>
        outcome.items = AllLeavesFirst(bookmarks_paths)

\* an absent argument, and fewer leaves than the cap: all are returned
C6_Witness ==
    /\ Returned
    /\ event.argument = NoneValue
    /\ Len(outcome.items) = 9
    /\ Len(LeavesOfSources(bookmarks_paths)) = 9

-----------------------------------------------------------------------------
(* C7 *)

KeywordUpdated == event.type = "PreferencesUpdateEvent" /\ event.id = "keyword"

\* C7: a preference-value-changed event for the key "keyword" leaves the
\* stored preferences and the source list as they were: nothing is
\* re-scanned.
C7_KeywordUpdateIgnored ==
    [][KeywordUpdated' => /\ preferences' = preferences
                          /\ bookmarks_paths' = bookmarks_paths]_vars

\* a keyword update handled while the filesystem no longer is what the last
\* scan saw: a re-scan would have changed the source list
C7_Witness ==
    /\ KeywordUpdated
    /\ bookmarks_paths # find_bookmarks_paths(preferences, fs)

-----------------------------------------------------------------------------
(* C8 *)

\* the entry's name, the part after the last slash, is exactly Bookmarks
IsNamedBookmarks(path) ==
    /\ Len(path) > Len(BookmarksName)
    /\ path[Len(path) - Len(BookmarksName)] = "/"
    /\ \A k \in 1..Len(BookmarksName) :
           path[Len(path) - Len(BookmarksName) + k] = BookmarksName[k]

IsBelow(path, d) ==
    /\ Len(path) > Len(d) + 1
    /\ \A k \in 1..Len(d) : path[k] = d[k]
    /\ path[Len(d) + 1] = "/"

TemplateDirsOf(browser) ==
    {shell_expand(ConfigDir(browser)), shell_expand(SnapDir(browser))}

UserDirs ==
    LET v == preferences["additional_browser_paths"]
    IN  IF truthy(v) THEN {split(v, ":")[i] : i \in 1..Len(split(v, ":"))} ELSE {}

EntriesNamedBookmarksBelow(dirs) ==
    {FsPaths[i] : i \in {j \in 1..Len(FsPaths) :
                            /\ fs[j] # "absent"
                            /\ IsNamedBookmarks(FsPaths[j])
                            /\ \E d \in dirs : IsBelow(FsPaths[j], d)}}

Scanned ==
    \/ event.type = "PreferencesEvent"
    \/ event.type = "PreferencesUpdateEvent" /\ event.id # "keyword"

\* C8: discovery keeps, under each candidate directory and each user
\* supplied directory, exactly the entries whose name is exactly Bookmarks
\* (never Bookmarks.bak or OldBookmarks), the former tagged with the
\* browser, the latter with the custom label.
C8_ExactlyTheEntriesNamedBookmarks ==
    Scanned =>
        {bookmarks_paths[i] : i \in 1..Len(bookmarks_paths)}
          = {<<path, BraveBeta>> : path \in EntriesNamedBookmarksBelow(TemplateDirsOf(BraveBeta))}
              \cup {<<path, custom_path>> : path \in EntriesNamedBookmarksBelow(UserDirs)}

-----------------------------------------------------------------------------
(* C9 *)

InSync ==
    /\ PreferencesLoaded
    /\ bookmarks_paths = find_bookmarks_paths(preferences, fs)

\* C9: the source list is replaced wholesale: the initial load and every
\* preference change that scans leave it equal to a full discovery for the
\* current extra-search-paths preference, and every other event leaves the
\* preferences and the list as they were; so after the initial load, and
\* for as long as the filesystem is unchanged, the list is the full
\* discovery for the current preference.
C9_SourceListIsFullDiscovery ==
    [][fs' = fs =>
           IF Scanned'
           THEN bookmarks_paths' = find_bookmarks_paths(preferences', fs)
           ELSE preferences' = preferences /\ bookmarks_paths' = bookmarks_paths]_vars

\* a change of the extra search paths after an earlier scan that had found
\* other sources
C9_Witness ==
    /\ event.type = "PreferencesUpdateEvent"
    /\ event.id = "additional_browser_paths"
    /\ preferences["additional_browser_paths"] = <<"/","z">>
    /\ Len(bookmarks_paths) = 1
    /\ InSync

-----------------------------------------------------------------------------
(* C10 *)

\* what a newly constructed extension returns for the same query
FreshOutcome ==
    handler_outcome(get_items(event.argument, bookmarks_paths, 0, fs))

\* C10: a query's result does not depend on the queries before it: it is
\* what an extension whose counter is 0 returns for the same source list
\* and files; and when a query returns, matches_len is the number of items
\* it returned.
C10_QueriesAreIndependent ==
    Queried =>
        /\ outcome = FreshOutcome
        /\ outcome.kind = "return" => matches_len = Len(outcome.items)

\* a query that returned some items, fewer than the cap
C10_Witness ==
    /\ Returned
    /\ Len(outcome.items) \in 1..(max_matches_len - 1)
    /\ matches_len = Len(outcome.items)

====
